---- MODULE Spec2Model ----
(***************************************************************************)
(* Model of PyDyssol/pydyssol_utils.py: pretty_print(data).                *)
(*                                                                         *)
(* The function is modelled statement by statement (the program counter pc *)
(* names the source line about to run).  Standard output is the sequence   *)
(* `out` of the complete lines written by the current call.  Python values *)
(* are records [t, n, s, items]; a number is a float that is a multiple of *)
(* one half, stored doubled in n (so n = 5 is 2.5), which keeps ".4f" and  *)
(* ".4e" exact.  Names and units are strings without line breaks.          *)
(***************************************************************************)
EXTENDS Integers, Sequences, FiniteSets, TLC

VARIABLES data, units, pc, idx, loc, out, err, ret, results

vars == <<data, units, pc, idx, loc, out, err, ret, results>>

-----------------------------------------------------------------------------
(* Bounds of the input universe *)

MaxSeqLen == 3      \* longest tuple/list given as an `overall` value
MaxDistLen == 2     \* longest distribution
MaxCalls == 2       \* calls of pretty_print made by the caller

-----------------------------------------------------------------------------
(* Python values *)

PyNum(m) == [t |-> "num", n |-> m, s |-> "", items |-> <<>>]
PyStr(str) == [t |-> "str", n |-> 0, s |-> str, items |-> <<>>]
PySeq(xs) == [t |-> "seq", n |-> 0, s |-> "", items |-> xs]
Unbound == [t |-> "unbound", n |-> 0, s |-> "", items |-> <<>>]

Abs(m) == IF m < 0 THEN -m ELSE m
Sign(m) == IF m < 0 THEN "-" ELSE ""

\* f"{k:<25}": left-justify, pad with spaces to the width, never truncate.
Width == 25
RECURSIVE LJust(_, _)
LJust(str, w) == IF Len(str) >= w THEN str ELSE LJust(str \o " ", w)

\* format(x, ".4f") of a float that is m/2.
Fixed4(m) ==
    Sign(m) \o ToString(Abs(m) \div 2) \o (IF Abs(m) % 2 = 1 THEN ".5000" ELSE ".0000")

\* format(x, ".4e") of a float that is m/2, |x| < 100.
TwoDigits(r) == IF r < 10 THEN "0" \o ToString(r) ELSE ToString(r)
Sci4(m) ==
    LET a == Abs(m)
        t == 5 * a      \* |x| * 10
    IN  Sign(m) \o
        (IF a = 0 THEN "0.0000e+00"
         ELSE IF a = 1 THEN "5.0000e-01"
         ELSE IF a < 20 THEN
            ToString(a \div 2) \o (IF a % 2 = 1 THEN ".5000" ELSE ".0000") \o "e+00"
         ELSE ToString(t \div 100) \o "." \o TwoDigits(t % 100) \o "00e+01")

\* format(x, "") inside an f-string: str(x).
Str(x) ==
    IF x.t = "num"
    THEN Sign(x.n) \o ToString(Abs(x.n) \div 2) \o (IF Abs(x.n) % 2 = 1 THEN ".5" ELSE ".0")
    ELSE x.s

\* The exception format(x, ".4f") / format(x, ".4e") raises, "none" for a number:
\* str rejects the format code (ValueError), list/tuple reject any spec (TypeError).
FormatError(x) ==
    IF x.t = "num" THEN "none" ELSE IF x.t = "str" THEN "ValueError" ELSE "TypeError"

-----------------------------------------------------------------------------
(* Text: a string holding line breaks is the sequence of its pieces between *)
(* the breaks (never empty: "" is <<"">>).                                  *)

\* a + b
Concat(a, b) == SubSeq(a, 1, Len(a) - 1) \o <<a[Len(a)] \o b[1]>> \o Tail(b)

\* "\n".join(strs)
JoinLines(strs) == IF strs = <<>> THEN <<"">> ELSE strs

\* print(text): writes the text and a line break, so every piece ends a line.
PyPrint(o, text) == o \o text

\* isinstance(v, (tuple, list))
IsSequence(x) == x.t = "seq"

-----------------------------------------------------------------------------
(* The default-unit table built at line 3, and dict.get *)

UnitTable ==
    [key \in {"mass", "massflow", "temperature", "pressure"} |->
        CASE key = "mass" -> "kg"
          [] key = "massflow" -> "kg/s"
          [] key = "temperature" -> "K"
          [] key = "pressure" -> "Pa"]

\* (Variant: d.setdefault(key, default), which inserts a missing key.)
DictAfterGet_SetDefault(d, key, default) ==
    [x \in DOMAIN d \cup {key} |-> IF x \in DOMAIN d THEN d[x] ELSE default]

\* d.get(key, default): the value looked up ...
DictGet(d, key, default) == IF key \in DOMAIN d THEN d[key] ELSE default
\* ... and the dict afterwards (get never inserts).
DictAfterGet(d, key, default) == d

-----------------------------------------------------------------------------
(* The input record.  data is a function from the keys that are present to  *)
(* ordered mappings; an ordered mapping (a dict in insertion order) is a    *)
(* sequence of entries [k, v] with distinct keys.                           *)

SectionKeys == {"overall", "composition", "distributions"}

Entry(key, value) == [k |-> key, v |-> value]

\* All dicts with keys from names (each at most once) and values from values.
RECURSIVE Mappings(_, _)
Mappings(names, values) ==
    {<<>>} \cup
    UNION {{<<Entry(nm, x)>> \o rest : x \in values, rest \in Mappings(names \ {nm}, values)} :
              nm \in names}

OverallNames == {"mass", "foo"}
CompositionNames == {"water", "temperature"}
DistributionNames == {"size", "mass"}

Good == PyNum(5)            \* 2.5
Bad == PyStr("abc")         \* not a number
UnitAtoms == {PyStr("m/s"), PyNum(7)}

\* Tuples/lists of every length 0..MaxSeqLen: the first element a number or
\* not, the second a unit string or a number, the rest numbers.
SeqValues ==
    {PySeq(<<>>)} \cup
    {PySeq(<<a>>) : a \in {PyNum(6), Bad}} \cup
    UNION {{PySeq(<<a, u>> \o [i \in 1..(len - 2) |-> PyNum(2)]) :
                a \in {PyNum(6), Bad}, u \in UnitAtoms} : len \in 2..MaxSeqLen}

OverallValues == {Good, Bad} \cup SeqValues
CompositionValues == {PyNum(3), Bad, PySeq(<<PyNum(3)>>)}

DistAtoms == {PyNum(-25), Bad}
RECURSIVE SeqsUpTo(_, _)
SeqsUpTo(S, len) ==
    IF len = 0 THEN {<<>>}
    ELSE LET shorter == SeqsUpTo(S, len - 1)
         IN  shorter \cup {Append(q, x) : q \in {r \in shorter : Len(r) = len - 1}, x \in S}
DistributionValues == {PySeq(q) : q \in SeqsUpTo(DistAtoms, MaxDistLen)}

\* The inputs explored: one section ranges over all its mappings while the
\* other two range over a short list (empty, good entries, one bad entry).
FullOverall == Mappings(OverallNames, OverallValues)
FullComposition == Mappings(CompositionNames, CompositionValues)
FullDistributions == Mappings(DistributionNames, DistributionValues)
LeanOverall ==
    {<<>>, <<Entry("mass", Good)>>, <<Entry("foo", PySeq(<<Good, PyStr("m/s")>>))>>,
     <<Entry("mass", Bad)>>,
     <<Entry("temperature", Good), Entry("massflow", PyNum(-3))>>,
     <<Entry("pressure", PyNum(0))>>}
LeanComposition == {<<>>, <<Entry("water", PyNum(3))>>, <<Entry("water", Bad)>>}
LeanDistributions ==
    {<<>>, <<Entry("size", PySeq(<<PyNum(2), PyNum(-25)>>))>>, <<Entry("size", PySeq(<<Bad>>))>>,
     <<Entry("psd", PySeq(<<PyNum(0), PyNum(1)>>)), Entry("size", PySeq(<<PyNum(19)>>))>>}

Record(present, o, c, d) ==
    [key \in present |->
        CASE key = "overall" -> o
          [] key = "composition" -> c
          [] key = "distributions" -> d]

Inputs ==
    {Record(p, o, c, d) : p \in SUBSET SectionKeys,
                          o \in FullOverall, c \in LeanComposition, d \in LeanDistributions}
    \cup
    {Record(p, o, c, d) : p \in SUBSET SectionKeys,
                          o \in LeanOverall, c \in FullComposition, d \in LeanDistributions}
    \cup
    {Record(p, o, c, d) : p \in SUBSET SectionKeys,
                          o \in LeanOverall, c \in LeanComposition, d \in FullDistributions}

-----------------------------------------------------------------------------
(* State *)

NoLocals == [k |-> "", v |-> Unbound, val |-> Unbound, unit |-> Unbound,
             name |-> "", dist |-> Unbound]

Init ==
    /\ data \in Inputs
    /\ units = <<>>
    /\ pc = "idle"
    /\ idx = 0
    /\ loc = NoLocals
    /\ out = <<>>
    /\ err = "none"
    /\ ret = "unset"
    /\ results = <<>>

\* (Variant: the exception is caught and the function returns.)
Raise_Swallowed(e) ==
    /\ pc' = "returned"
    /\ err' = "none"

\* An exception leaves pretty_print: nothing in the function catches it.
Raise(e) ==
    /\ pc' = "raised"
    /\ err' = e

Running == pc \notin {"idle", "returned", "raised"}

-----------------------------------------------------------------------------
(* The caller *)

\* The caller calls pretty_print(data); a call that has ended is recorded
\* first.  The new call runs in a fresh frame and its output is collected
\* from empty.
Call ==
    /\ pc \in {"idle", "returned", "raised"}
    /\ Len(results) + (IF pc = "idle" THEN 0 ELSE 1) < MaxCalls
    /\ results' = IF pc = "idle" THEN results
                  ELSE Append(results, [out |-> out, err |-> err, ret |-> ret])
    /\ pc' = "line3"
    /\ units' = <<>>
    /\ idx' = 0
    /\ loc' = NoLocals
    /\ out' = <<>>
    /\ err' = "none"
    /\ ret' = "unset"
    /\ UNCHANGED data

-----------------------------------------------------------------------------
(* pretty_print, line by line *)

\* (Variant: the table is module state that is filled by the first call only
\* and is left empty afterwards.)
Line3_BuiltOnce ==
    /\ pc = "line3"
    /\ units' = IF results = <<>> THEN UnitTable ELSE [key \in {} |-> ""]
    /\ pc' = "line4"
    /\ UNCHANGED <<data, idx, loc, out, err, ret, results>>

\* units = {"mass": "kg", ...}
Line3 ==
    /\ pc = "line3"
    /\ units' = UnitTable
    /\ pc' = "line4"
    /\ UNCHANGED <<data, idx, loc, out, err, ret, results>>

\* print("=== Overall ===")
Line4 ==
    /\ pc = "line4"
    /\ out' = PyPrint(out, <<"=== Overall ===">>)
    /\ pc' = "line5"
    /\ UNCHANGED <<data, units, idx, loc, err, ret, results>>

\* data[key].items(): KeyError when the key is missing, else iteration starts.
Lookup(key, loop) ==
    /\ IF key \in DOMAIN data
       THEN pc' = loop /\ idx' = 0 /\ err' = err
       ELSE Raise("KeyError") /\ idx' = idx
    /\ UNCHANGED <<data, units, loc, out, ret, results>>

\* for k, v in data["overall"].items():  -- the lookup
Line5 ==
    /\ pc = "line5"
    /\ Lookup("overall", "line5_next")

\* for k, v in ...:  -- the next item, or the end of the loop
Line5Next ==
    /\ pc = "line5_next"
    /\ IF idx < Len(data["overall"])
       THEN /\ idx' = idx + 1
            /\ loc' = [loc EXCEPT !.k = data["overall"][idx + 1].k,
                                  !.v = data["overall"][idx + 1].v]
            /\ pc' = "line6"
       ELSE /\ pc' = "line12"
            /\ UNCHANGED <<idx, loc>>
    /\ UNCHANGED <<data, units, out, err, ret, results>>

\* unit = units.get(k, "")
Line6 ==
    /\ pc = "line6"
    /\ loc' = [loc EXCEPT !.unit = PyStr(DictGet(units, loc.k, ""))]
    /\ units' = DictAfterGet(units, loc.k, "")
    /\ pc' = "line7"
    /\ UNCHANGED <<data, idx, out, err, ret, results>>

\* if isinstance(v, (tuple, list)):
Line7 ==
    /\ pc = "line7"
    /\ pc' = IF IsSequence(loc.v) THEN "line8" ELSE "line10"
    /\ UNCHANGED <<data, units, idx, loc, out, err, ret, results>>

\* (Variant: the first two items are taken and the rest ignored.)
UnpackError_Lenient(xs) == IF Len(xs) >= 2 THEN "none" ELSE "ValueError"

\* The exception of unpacking xs into two targets, "none" when it has two items.
UnpackError(xs) == IF Len(xs) = 2 THEN "none" ELSE "ValueError"

\* (Variant: val = v[0], the unit of the table is kept.)
Line8_KeepDefault ==
    /\ pc = "line8"
    /\ IF Len(loc.v.items) = 2
       THEN /\ loc' = [loc EXCEPT !.val = loc.v.items[1]]
            /\ pc' = "line11"
            /\ err' = err
       ELSE /\ pc' = "raised"
            /\ err' = "ValueError"
            /\ loc' = loc
    /\ UNCHANGED <<data, units, idx, out, ret, results>>

\* val, unit = v
Line8 ==
    /\ pc = "line8"
    /\ IF UnpackError(loc.v.items) = "none"
       THEN /\ loc' = [loc EXCEPT !.val = loc.v.items[1], !.unit = loc.v.items[2]]
            /\ pc' = "line11"
            /\ err' = err
       ELSE /\ Raise(UnpackError(loc.v.items))
            /\ loc' = loc
    /\ UNCHANGED <<data, units, idx, out, ret, results>>

\* val = v
Line10 ==
    /\ pc = "line10"
    /\ loc' = [loc EXCEPT !.val = loc.v]
    /\ pc' = "line11"
    /\ UNCHANGED <<data, units, idx, out, err, ret, results>>

\* f"{k:<25}: {val:.4f} {unit}"
OverallLine(k, val, unit) == LJust(k, Width) \o ": " \o Fixed4(val.n) \o " " \o Str(unit)

\* print(f"{k:<25}: {val:.4f} {unit}"): the string is built before anything is
\* written, so a value that cannot be formatted writes nothing.
Line11 ==
    /\ pc = "line11"
    /\ IF FormatError(loc.val) = "none"
       THEN /\ out' = PyPrint(out, <<OverallLine(loc.k, loc.val, loc.unit)>>)
            /\ pc' = "line5_next"
            /\ err' = err
       ELSE /\ Raise(FormatError(loc.val))
            /\ out' = out
    /\ UNCHANGED <<data, units, idx, loc, ret, results>>

\* (Variant: the header is written only when the section exists.)
Line12_Checked ==
    /\ pc = "line12"
    /\ out' = IF "composition" \in DOMAIN data
              THEN PyPrint(out, <<"", "=== Composition ===">>) ELSE out
    /\ pc' = "line13"
    /\ UNCHANGED <<data, units, idx, loc, err, ret, results>>

\* print("\n=== Composition ===")
Line12 ==
    /\ pc = "line12"
    /\ out' = PyPrint(out, <<"", "=== Composition ===">>)
    /\ pc' = "line13"
    /\ UNCHANGED <<data, units, idx, loc, err, ret, results>>

\* for k, v in data["composition"].items():  -- the lookup
Line13 ==
    /\ pc = "line13"
    /\ Lookup("composition", "line13_next")

Line13Next ==
    /\ pc = "line13_next"
    /\ IF idx < Len(data["composition"])
       THEN /\ idx' = idx + 1
            /\ loc' = [loc EXCEPT !.k = data["composition"][idx + 1].k,
                                  !.v = data["composition"][idx + 1].v]
            /\ pc' = "line14"
       ELSE /\ pc' = "line15"
            /\ UNCHANGED <<idx, loc>>
    /\ UNCHANGED <<data, units, out, err, ret, results>>

\* (Variant: the unit is looked up by name, "kg" being the default.)
CompositionLine_DefaultUnit(k, v) ==
    LJust(k, Width) \o ": " \o Fixed4(v.n) \o " " \o DictGet(UnitTable, k, "kg")

\* f"{k:<25}: {v:.4f} kg"
CompositionLine(k, v) == LJust(k, Width) \o ": " \o Fixed4(v.n) \o " kg"

\* print(f"{k:<25}: {v:.4f} kg")
Line14 ==
    /\ pc = "line14"
    /\ IF FormatError(loc.v) = "none"
       THEN /\ out' = PyPrint(out, <<CompositionLine(loc.k, loc.v)>>)
            /\ pc' = "line13_next"
            /\ err' = err
       ELSE /\ Raise(FormatError(loc.v))
            /\ out' = out
    /\ UNCHANGED <<data, units, idx, loc, ret, results>>

\* (Variant: the header of the previous section is written again.)
Line15_Repeated ==
    /\ pc = "line15"
    /\ out' = PyPrint(out, <<"", "=== Composition ===">>)
    /\ pc' = "line16"
    /\ UNCHANGED <<data, units, idx, loc, err, ret, results>>

\* print("\n=== Distributions ===")
Line15 ==
    /\ pc = "line15"
    /\ out' = PyPrint(out, <<"", "=== Distributions ===">>)
    /\ pc' = "line16"
    /\ UNCHANGED <<data, units, idx, loc, err, ret, results>>

\* for name, dist in data["distributions"].items():  -- the lookup
Line16 ==
    /\ pc = "line16"
    /\ Lookup("distributions", "line16_next")

\* The next distribution; the end of this loop is the end of the function,
\* which returns None.
Line16Next ==
    /\ pc = "line16_next"
    /\ IF idx < Len(data["distributions"])
       THEN /\ idx' = idx + 1
            /\ loc' = [loc EXCEPT !.name = data["distributions"][idx + 1].k,
                                  !.dist = data["distributions"][idx + 1].v]
            /\ pc' = "line17"
            /\ ret' = ret
       ELSE /\ pc' = "returned"
            /\ ret' = "None"
            /\ UNCHANGED <<idx, loc>>
    /\ UNCHANGED <<data, units, out, err, results>>

\* The first exception raised while the generator f"{x:.4e}" for x in dist is
\* consumed, "none" when every item formats.
RECURSIVE FirstFormatError(_)
FirstFormatError(xs) ==
    IF xs = <<>> THEN "none"
    ELSE IF FormatError(Head(xs)) # "none" THEN FormatError(Head(xs))
    ELSE FirstFormatError(Tail(xs))

\* (Variant: f"{name}:\n" + ..., without the leading line break.)
DistributionText_NoBlank(name, xs) ==
    Concat(<<name \o ":", "">>, JoinLines([i \in 1..Len(xs) |-> Sci4(xs[i].n)]))

\* f"\n{name}:\n" + "\n".join(f"{x:.4e}" for x in dist)
DistributionText(name, xs) ==
    Concat(<<"", name \o ":", "">>, JoinLines([i \in 1..Len(xs) |-> Sci4(xs[i].n)]))

\* The items of xs before the first one that cannot be formatted.
RECURSIVE FormattablePrefix(_)
FormattablePrefix(xs) ==
    IF xs = <<>> \/ FormatError(Head(xs)) # "none" THEN <<>>
    ELSE <<Head(xs)>> \o FormattablePrefix(Tail(xs))

\* (Variant: the name and then each value are printed by calls of their own,
\* so the lines before a bad value are written.)
Line17_LineByLine ==
    /\ pc = "line17"
    /\ out' = PyPrint(out, <<"", loc.name \o ":">>
                           \o [i \in 1..Len(FormattablePrefix(loc.dist.items)) |->
                                 Sci4(loc.dist.items[i].n)])
    /\ IF FirstFormatError(loc.dist.items) = "none"
       THEN pc' = "line16_next" /\ err' = err
       ELSE pc' = "raised" /\ err' = FirstFormatError(loc.dist.items)
    /\ UNCHANGED <<data, units, idx, loc, ret, results>>

\* print(f"\n{name}:\n" + "\n".join(...)): the whole argument is evaluated
\* before print is called.
Line17 ==
    /\ pc = "line17"
    /\ IF FirstFormatError(loc.dist.items) = "none"
       THEN /\ out' = PyPrint(out, DistributionText(loc.name, loc.dist.items))
            /\ pc' = "line16_next"
            /\ err' = err
       ELSE /\ Raise(FirstFormatError(loc.dist.items))
            /\ out' = out
    /\ UNCHANGED <<data, units, idx, loc, ret, results>>

Next ==
    \/ Call
    \/ Line3 \/ Line4 \/ Line5 \/ Line5Next \/ Line6 \/ Line7 \/ Line8 \/ Line10 \/ Line11
    \/ Line12 \/ Line13 \/ Line13Next \/ Line14
    \/ Line15 \/ Line16 \/ Line16Next \/ Line17

Spec == Init /\ [][Next]_vars

-----------------------------------------------------------------------------
(* Vocabulary of the properties: what the documentation says each section   *)
(* of the report looks like, written independently of the actions above.    *)

Has(key) == key \in DOMAIN data
Ended == pc \in {"returned", "raised"}

IsPrefix(a, b) == Len(a) <= Len(b) /\ SubSeq(b, 1, Len(a)) = a

RECURSIVE Flatten(_)
Flatten(ss) == IF ss = <<>> THEN <<>> ELSE Head(ss) \o Flatten(Tail(ss))

\* An `overall` value is a plain number or a (number, unit) pair.
IsPair(x) == x.t = "seq" /\ Len(x.items) = 2
OverallOK(e) == IF e.v.t = "seq" THEN IsPair(e.v) /\ e.v.items[1].t = "num" ELSE e.v.t = "num"
CompositionOK(e) == e.v.t = "num"
DistributionOK(e) == \A i \in 1..Len(e.v.items) : e.v.items[i].t = "num"

AllOK(entries, OK(_)) == \A i \in 1..Len(entries) : OK(entries[i])
\* The position of the first entry that cannot be printed (Len + 1 if none).
FirstBad(entries, OK(_)) ==
    IF AllOK(entries, OK) THEN Len(entries) + 1
    ELSE CHOOSE i \in 1..Len(entries) : ~OK(entries[i]) /\ \A j \in 1..(i - 1) : OK(entries[j])

\* The default units as documented.
DocumentedUnit(name) ==
    CASE name = "mass" -> "kg"
      [] name = "massflow" -> "kg/s"
      [] name = "temperature" -> "K"
      [] name = "pressure" -> "Pa"
      [] OTHER -> ""

DocumentedOverallLine(e) ==
    LET number == IF IsPair(e.v) THEN e.v.items[1] ELSE e.v
        unit == IF IsPair(e.v) THEN Str(e.v.items[2]) ELSE DocumentedUnit(e.k)
    IN  LJust(e.k, Width) \o ": " \o Fixed4(number.n) \o " " \o unit

DocumentedCompositionLine(e) == LJust(e.k, Width) \o ": " \o Fixed4(e.v.n) \o " kg"

\* One blank line, the name and a colon, one line per value.
DocumentedBlock(e) ==
    <<"", e.k \o ":">> \o [i \in 1..Len(e.v.items) |-> Sci4(e.v.items[i].n)]

\* The same, except that an empty distribution is followed by an empty line.
BlockWithEmptyLine(e) == DocumentedBlock(e) \o (IF e.v.items = <<>> THEN <<"">> ELSE <<>>)

LinesOf(entries, Line(_)) == [i \in 1..Len(entries) |-> Line(entries[i])]
BlocksOf(entries, Block(_)) == Flatten([i \in 1..Len(entries) |-> Block(entries[i])])

OverallHeader == <<"=== Overall ===">>
CompositionHeader == <<"", "=== Composition ===">>
DistributionsHeader == <<"", "=== Distributions ===">>

\* The report of a record whose three sections are present and printable.
Report(d) ==
    OverallHeader \o LinesOf(d["overall"], DocumentedOverallLine)
    \o CompositionHeader \o LinesOf(d["composition"], DocumentedCompositionLine)
    \o DistributionsHeader \o BlocksOf(d["distributions"], BlockWithEmptyLine)

Positions(line) == {i \in 1..Len(out) : out[i] = line}

-----------------------------------------------------------------------------
(* C1 *)

\* The case of C1: the record has no `composition` key, its `overall`
\* section is present and printable, and the call has ended in a failure.
C1_Case == pc = "raised" /\ ~Has("composition") /\ Has("overall") /\ AllOK(data["overall"], OverallOK)

\* C1 as stated: when `composition` is missing the call ends in a
\* missing-field failure, no part of the Composition section (its header
\* line included) has been written, and every Overall line has been written.
C1_NoCompositionHeader ==
    C1_Case =>
        /\ err = "KeyError"
        /\ Positions("=== Composition ===") = {}
        /\ IsPrefix(OverallHeader \o LinesOf(data["overall"], DocumentedOverallLine), out)

\* C1 amended: when `composition` is missing (and the Overall section prints)
\* the call ends in a missing-field failure after the blank line and the
\* header "=== Composition ===" have been written: the output is exactly the
\* whole Overall section followed by these two lines, with no composition
\* entry and nothing of the Distributions section.
C1_FailsAfterCompositionHeader ==
    C1_Case =>
        /\ err = "KeyError"
        /\ out = OverallHeader \o LinesOf(data["overall"], DocumentedOverallLine)
                 \o CompositionHeader

C1_Witness == C1_Case /\ Len(data["overall"]) = 2 /\ Has("distributions")

-----------------------------------------------------------------------------
(* C2 *)

\* The lines of the report that hold a distribution's name.
NameLines(name) == Positions(name \o ":")

\* C2: when a call returns, each of the three headers has been written
\* exactly once, in the order Overall, Composition, Distributions; the line
\* of every `overall` entry lies between the first two headers, the line of
\* every `composition` entry between the last two, and every distribution
\* block after the Distributions header.
C2_SectionOrder ==
    pc = "returned" =>
        /\ Cardinality(Positions("=== Overall ===")) = 1
        /\ Cardinality(Positions("=== Composition ===")) = 1
        /\ Cardinality(Positions("=== Distributions ===")) = 1
        /\ LET o == CHOOSE i \in Positions("=== Overall ===") : TRUE
               c == CHOOSE i \in Positions("=== Composition ===") : TRUE
               d == CHOOSE i \in Positions("=== Distributions ===") : TRUE
           IN  /\ o < c /\ c < d
               \* between the first two headers: the overall lines, then a blank
               /\ c - o = Len(data["overall"]) + 2 /\ out[c - 1] = ""
               /\ \A e \in 1..Len(data["overall"]) :
                     IsPrefix(LJust(data["overall"][e].k, Width) \o ": ", out[o + e])
               \* between the last two headers: the composition lines, then a blank
               /\ d - c = Len(data["composition"]) + 2 /\ out[d - 1] = ""
               /\ \A e \in 1..Len(data["composition"]) :
                     IsPrefix(LJust(data["composition"][e].k, Width) \o ": ", out[c + e])
               \* after the last header: the distribution blocks
               /\ \A e \in 1..Len(data["distributions"]) :
                     /\ NameLines(data["distributions"][e].k) # {}
                     /\ \A i \in NameLines(data["distributions"][e].k) : i > d
               /\ Len(out) - d = Len(BlocksOf(data["distributions"], BlockWithEmptyLine))

C2_Witness ==
    /\ pc = "returned"
    /\ Len(data["overall"]) >= 1 /\ Len(data["composition"]) >= 1
    /\ Len(data["distributions"]) >= 1

-----------------------------------------------------------------------------
(* C3 *)

\* The `overall` entries whose line has been written by the current call.
OverallWritten ==
    IF ~Has("overall") \/ pc \in {"idle", "line3", "line4", "line5"} THEN 0
    ELSE IF Len(out) - 1 < Len(data["overall"]) THEN Len(out) - 1
    ELSE Len(data["overall"])

\* C3: the line written for an `overall` entry carries, as its unit, the
\* second element of a 2-element tuple/list value (whatever its type, and
\* even for a name of the default table), else the documented default unit
\* of the name, else nothing; and, as its number, the first element of the
\* pair or else the plain value.  One such line is written per entry passed.
C3_UnitResolution ==
    /\ \A i \in 1..OverallWritten : out[1 + i] = DocumentedOverallLine(data["overall"][i])
    /\ pc = "line5_next" => Len(out) = 1 + idx

\* A pair with a numeric second element, under a name of the default table,
\* has been printed.
C3_Witness ==
    /\ pc = "line5_next" /\ idx >= 1
    /\ data["overall"][idx].k = "mass"
    /\ IsPair(data["overall"][idx].v)
    /\ data["overall"][idx].v.items[2].t = "num"
    /\ out[Len(out)] = LJust("mass", Width) \o ": 3.0000 3.5"

-----------------------------------------------------------------------------
(* C7 *)

\* C7: one line is written per `composition` entry, in insertion order, and
\* it always ends in " kg", whatever the component name; one line is written
\* per `overall` entry, in insertion order.
C7_CompositionLines ==
    /\ pc = "line5_next" =>
          /\ Len(out) = 1 + idx
          /\ \A i \in 1..idx : IsPrefix(LJust(data["overall"][i].k, Width) \o ": ", out[1 + i])
    /\ pc \in {"line13_next", "line14"} =>
          LET base == 1 + Len(data["overall"]) + 2
              done == IF pc = "line14" THEN idx - 1 ELSE idx
          IN  /\ Len(out) = base + done
              /\ \A i \in 1..done :
                    out[base + i] = LJust(data["composition"][i].k, Width) \o ": "
                                    \o Fixed4(data["composition"][i].v.n) \o " kg"

C7_Witness ==
    /\ pc = "line13_next" /\ idx = 2
    /\ data["composition"][2].k = "temperature"
    /\ out[Len(out)] = LJust("temperature", Width) \o ": 1.5000 kg"

-----------------------------------------------------------------------------
(* C4 *)

\* The lines written before the first distribution block.
BeforeBlocks == 1 + Len(data["overall"]) + 2 + Len(data["composition"]) + 2

\* The lines written by the current call for the distributions passed so far.
BlocksWritten == SubSeq(out, BeforeBlocks + 1, Len(out))

\* C4 as stated: for a distribution of n values, n >= 0, exactly one blank
\* line, the name line and n value lines are written, in insertion order of
\* the distributions, and nothing else.
C4_BlockOfNValues ==
    pc = "line16_next" =>
        BlocksWritten = BlocksOf(SubSeq(data["distributions"], 1, idx), DocumentedBlock)

\* C4 amended: the same for n >= 1; an empty distribution writes the blank
\* line, the name line and one more empty line.
C4_BlockWithEmptyLine ==
    pc = "line16_next" =>
        BlocksWritten = BlocksOf(SubSeq(data["distributions"], 1, idx), BlockWithEmptyLine)

C4_Witness ==
    /\ pc = "line16_next" /\ idx = 2
    /\ data["distributions"][1].v.items = <<>>
    /\ Len(data["distributions"][2].v.items) = 2
    /\ Len(BlocksWritten) = 7

-----------------------------------------------------------------------------
(* C5 *)

\* The record cut at the failure point: the sections before the failing one
\* whole, the failing section up to the entry before the failing one, the
\* later sections empty.  `line` is the statement that fails and `at` the
\* entry it works on.
Leading(line, at) ==
    [key \in SectionKeys |->
        CASE key = "overall" ->
                IF line = "line5" THEN <<>>
                ELSE IF line \in {"line8", "line11"} THEN SubSeq(data["overall"], 1, at - 1)
                ELSE data["overall"]
          [] key = "composition" ->
                IF line \in {"line5", "line8", "line11", "line13"} THEN <<>>
                ELSE IF line = "line14" THEN SubSeq(data["composition"], 1, at - 1)
                ELSE data["composition"]
          [] key = "distributions" ->
                IF line = "line17" THEN SubSeq(data["distributions"], 1, at - 1) ELSE <<>>]

\* The headers of the sections after the failing one, which a failure-free
\* call on the leading data goes on to write.
LaterHeaderLines(line) ==
    IF line \in {"line5", "line8", "line11"} THEN 4
    ELSE IF line \in {"line13", "line14"} THEN 2 ELSE 0

CleanRecord ==
    /\ DOMAIN data = SectionKeys
    /\ AllOK(data["overall"], OverallOK)
    /\ AllOK(data["composition"], CompositionOK)
    /\ AllOK(data["distributions"], DistributionOK)

C5_Step ==
    /\ (Running /\ pc' = "raised") =>
          /\ err' \in {"KeyError", "ValueError", "TypeError"}
          /\ ret' = "unset"
          /\ out' = out
          /\ LET full == Report(Leading(pc, idx))
             IN  out = SubSeq(full, 1, Len(full) - LaterHeaderLines(pc))
    /\ pc = "raised" =>
          /\ pc' = "line3"
          /\ results' = Append(results, [out |-> out, err |-> err, ret |-> "unset"])
    /\ pc' = "returned" => CleanRecord /\ err' = "none"

\* C5: a failure (a missing key, a value that is not a number) ends the call
\* in an exception that reaches the caller: the call never returns, nothing
\* is written after the failure point, the caller sees the exception and the
\* output as they were at that point, and that output is what a failure-free
\* call on the leading data writes up to there.
C5_FailFast == [][C5_Step]_vars

C5_Witness ==
    /\ pc = "raised" /\ err = "TypeError" /\ Has("overall") /\ Has("composition")
    /\ Len(data["overall"]) = 1 /\ Len(data["composition"]) = 2
    /\ Len(out) = 5

-----------------------------------------------------------------------------
(* C6 *)

\* C6: a call on the same record writes the same lines and ends the same way
\* (return or the same exception) as every earlier call.
C6_SameOutputTwice ==
    /\ Ended /\ results # <<>> =>
          results[Len(results)] = [out |-> out, err |-> err, ret |-> ret]
    /\ \A i, j \in 1..Len(results) : results[i] = results[j]

C6_Witness ==
    /\ pc = "returned" /\ Len(results) = 1
    /\ Len(data["overall"]) = 2 /\ \E i \in 1..2 : data["overall"][i].v = Good
    /\ Len(out) > 6

-----------------------------------------------------------------------------
(* C8 *)

C8_Step ==
    /\ data' = data
    /\ Running /\ pc # "line3" => units = UnitTable /\ units' = units
    /\ Running => IsPrefix(out, out')
    /\ pc' = "returned" => ret' = "None"
    /\ pc' # "returned" => ret' = "unset"

\* C8: a call only appends lines to the output: the record and the
\* default-unit table are the same after every step, and a call that returns
\* returns None.
C8_OnlyWrites == [][C8_Step]_vars

\* A name missing from the table has been looked up.
C8_Witness == pc = "line7" /\ loc.k = "foo" /\ loc.unit = PyStr("") /\ units = UnitTable

-----------------------------------------------------------------------------
(* C9 *)

WrongLength(e) == e.v.t = "seq" /\ Len(e.v.items) # 2

\* C9: an `overall` value that is a tuple/list of a length other than 2 is
\* never printed: the call does not return, no line is written for that
\* entry nor anything after it, and when the call fails at it (it is the
\* first entry that cannot be printed) the exception is the unpacking
\* ValueError and the lines of all earlier entries have been written.
C9_WrongLengthFails ==
    Has("overall") =>
        \A i \in 1..Len(data["overall"]) :
            WrongLength(data["overall"][i]) =>
                /\ pc # "returned"
                /\ Len(out) <= i
                /\ (pc = "raised" /\ FirstBad(data["overall"], OverallOK) = i) =>
                      /\ err = "ValueError"
                      /\ idx = i
                      /\ out = OverallHeader
                               \o LinesOf(SubSeq(data["overall"], 1, i - 1), DocumentedOverallLine)

C9_Witness ==
    /\ pc = "raised" /\ idx = 2 /\ Has("overall") /\ Len(data["overall"]) = 2
    /\ data["overall"][1].v = Good
    /\ Len(data["overall"][2].v.items) = 3
    /\ Len(out) = 2

-----------------------------------------------------------------------------
(* C10 *)

\* C10: when the first value that cannot be printed is in a distribution,
\* the call fails having written the blocks of the earlier distributions in
\* full and no line of that distribution; when it is in `composition` or
\* `overall`, the lines of the earlier entries of that section have been
\* written.
C10_BlockAllOrNothing ==
    pc = "raised" =>
        /\ (DOMAIN data = SectionKeys /\ AllOK(data["overall"], OverallOK)
            /\ AllOK(data["composition"], CompositionOK)) =>
              out = Report([data EXCEPT !["distributions"] =
                               SubSeq(@, 1, FirstBad(@, DistributionOK) - 1)])
        /\ (Has("overall") /\ Has("composition") /\ AllOK(data["overall"], OverallOK)
            /\ ~AllOK(data["composition"], CompositionOK)) =>
              out = OverallHeader \o LinesOf(data["overall"], DocumentedOverallLine)
                    \o CompositionHeader
                    \o LinesOf(SubSeq(data["composition"], 1,
                                      FirstBad(data["composition"], CompositionOK) - 1),
                               DocumentedCompositionLine)
        /\ (Has("overall") /\ ~AllOK(data["overall"], OverallOK)) =>
              out = OverallHeader
                    \o LinesOf(SubSeq(data["overall"], 1,
                                      FirstBad(data["overall"], OverallOK) - 1),
                               DocumentedOverallLine)

\* The second distribution holds a number and then a value that is not one.
C10_Witness ==
    /\ pc = "raised" /\ DOMAIN data = SectionKeys
    /\ Len(data["distributions"]) = 2 /\ idx = 2
    /\ data["distributions"][1].v.items = <<PyNum(-25)>>
    /\ data["distributions"][2].v.items = <<PyNum(-25), Bad>>
    /\ Len(out) = BeforeBlocks + 3

====
